---- MODULE Spec2Model ----
(***************************************************************************)
(* PhyChat chat controller (static/js/chat.js, class PhyChatApp): the      *)
(* conversation list, its localStorage record, the active conversation,    *)
(* the processing flag, the rendered transcript and the pending response.  *)
(* Texts are sequences of one-character strings so that trim, toLowerCase, *)
(* substring and includes are computed as the code computes them.          *)
(***************************************************************************)
EXTENDS Integers, Sequences, FiniteSets, TLC

\* ---------------------------------------------------------------- bounds
MaxConvs == 2        \* conversations the sidebar may hold before "new chat" is no longer pressed
MaxMsgs == 2         \* messages in the store before no further submission is made
MaxTicks == 1        \* milliseconds that pass on the clock in one run
MaxFragments == 2    \* fragments concatenated into one resolver input
MaxAttachments == 1  \* attachment tokens appended to one input text

\* ------------------------------------------------------- program constants
TitleLimit == 30     \* content.substring(0, 30), content.length > 30
MinDelay == 1500     \* 1500 + Math.random() * 1000
DelaySpread == 1000

StartClock == 1      \* Date.now() when the page is first loaded
LastClock == StartClock + MaxTicks

Null == "null"       \* the JavaScript null held by currentConversationId before init

\* ------------------------------------------------------------------ texts
KwNewton == <<"n","e","w","t","o","n">>
KwQuantum == <<"q","u","a","n","t","u","m">>
KwThermodynamics == <<"t","h","e","r","m","o","d","y","n","a","m","i","c","s">>
KwElectromagnetism == <<"e","l","e","c","t","r","o","m","a","g","n","e","t","i","s","m">>
KwRelativity == <<"r","e","l","a","t","i","v","i","t","y">>
KwDefault == <<"d","e","f","a","u","l","t">>

\* The canned responses; each is one opaque token standing for the literal.
RespNewton == <<"**Newton's Laws of Motion** ...">>
RespQuantum == <<"**Quantum Mechanics** is a fundamental theory ...">>
RespThermodynamics == <<"**Thermodynamics** is the branch of physics ...">>
RespElectromagnetism == <<"**Electromagnetism** describes the interaction ...">>
RespRelativity == <<"**Einstein's Theory of Relativity** ...">>
RespDefault == <<"That's a great physics question! ...">>

\* Object.entries(responses): own string keys in insertion order.
responses ==
    << <<KwNewton, RespNewton>>,
       <<KwQuantum, RespQuantum>>,
       <<KwThermodynamics, RespThermodynamics>>,
       <<KwElectromagnetism, RespElectromagnetism>>,
       <<KwRelativity, RespRelativity>>,
       <<KwDefault, RespDefault>> >>

\* data-prompt attributes of the welcome screen's quick-prompt buttons
PromptNewton == <<"E","x","p","l","a","i","n"," ","N","e","w","t","o","n","'","s"," ","l","a","w","s"," ","o","f"," ","m","o","t","i","o","n">>
PromptQuantum == <<"W","h","a","t"," ","i","s"," ","q","u","a","n","t","u","m"," ","m","e","c","h","a","n","i","c","s","?">>
PromptThermo == <<"E","x","p","l","a","i","n"," ","t","h","e","r","m","o","d","y","n","a","m","i","c","s">>
PromptRelativity == <<"W","h","a","t"," ","i","s"," ","E","i","n","s","t","e","i","n","'","s"," ","t","h","e","o","r","y"," ","o","f"," ","r","e","l","a","t","i","v","i","t","y","?">>
QuickPrompts == {PromptNewton, PromptQuantum, PromptThermo, PromptRelativity}
\* the quick prompts pressed in the checked runs: one longer than TitleLimit, one shorter
PressedPrompts == {PromptNewton}

DefaultTitle == <<"N","e","w"," ","C","o","n","v","e","r","s","a","t","i","o","n">>
ErrorText == <<"S","o","r","r","y",","," ","I"," ","e","n","c","o","u","n","t","e","r","e","d"," ","a","n"," ","e","r","r","o","r","."," ","P","l","e","a","s","e"," ","t","r","y"," ","a","g","a","i","n",".">>
Ellipsis == <<".",".",".">>

\* Texts the user types: whitespace only, and one that trims to exactly
\* TitleLimit characters (the quick prompts give longer and shorter ones).
TextBlank == <<" ","\n">>
TextPadded30 == <<" ","W","h","a","t"," ","i","s"," ","E","i","n","s","t","e","i","n","'","s"," ","r","e","l","a","t","i","v","i","t","y","?","\n">>
TypedTexts == {TextBlank, TextPadded30}

\* What the speech recognizer hands to onresult, joined: a transcript.
Transcript == <<"w","h","a","t"," ","i","s"," ","m","a","s","s">>
Transcripts == {Transcript}

\* `\n[Attached: ${fileName} (${fileSize})]`: the newline, then the bracketed
\* part as one opaque token (it holds no whitespace at its ends).
AttachmentToken == <<"\n", "[Attached: notes.txt (1 KB)]">>

\* ---------------------------------------------------------- string methods
WhiteSpace == {" ", "\n", "\t"}

RECURSIVE TrimStart(_)
TrimStart(s) ==
    IF s # <<>> /\ Head(s) \in WhiteSpace THEN TrimStart(Tail(s)) ELSE s

RECURSIVE TrimEnd(_)
TrimEnd(s) ==
    IF s # <<>> /\ s[Len(s)] \in WhiteSpace
    THEN TrimEnd(SubSeq(s, 1, Len(s) - 1)) ELSE s

\* String.prototype.trim
Trim(s) == TrimEnd(TrimStart(s))

UpperLetters == <<"A","B","C","D","E","F","G","H","I","J","K","L","M","N","O","P","Q","R","S","T","U","V","W","X","Y","Z">>
LowerLetters == <<"a","b","c","d","e","f","g","h","i","j","k","l","m","n","o","p","q","r","s","t","u","v","w","x","y","z">>

\* the lowercase letter of each uppercase letter
LowerOf ==
    [c \in {UpperLetters[i] : i \in 1..Len(UpperLetters)} |->
        LowerLetters[CHOOSE i \in 1..Len(UpperLetters) : UpperLetters[i] = c]]

LowerChar(c) == IF c \in DOMAIN LowerOf THEN LowerOf[c] ELSE c

\* String.prototype.toLowerCase
ToLowerCase(s) == [i \in 1..Len(s) |-> LowerChar(s[i])]

\* String.prototype.includes
Includes(s, kw) ==
    \E i \in 0..(Len(s) - Len(kw)) : SubSeq(s, i + 1, i + Len(kw)) = kw

\* String.prototype.substring(0, n)
Substring0(s, n) == SubSeq(s, 1, IF Len(s) < n THEN Len(s) ELSE n)

\* ------------------------------------------------------------- the resolver
Delays == {MinDelay, MinDelay + DelaySpread - 1}

RECURSIVE ScanEntries(_, _, _)
ScanEntries(entries, text, i) ==
    IF i > Len(entries) THEN RespDefault
    ELSE IF Includes(text, entries[i][1]) THEN entries[i][2]
    ELSE ScanEntries(entries, text, i + 1)

\* getAIResponse with the keywords looked up in the message as typed.
getAIResponseCaseSensitive(message, ms) == ScanEntries(responses, message, 1)

\* getAIResponse: after the delay, the first entry whose keyword the
\* lowercased message includes, else responses.default.
getAIResponse(message, ms) == ScanEntries(responses, ToLowerCase(message), 1)

\* ------------------------------------------------------------ conversations
\* Date.now().toString()
IdOf(t) == ToString(t)

FindIndex(convs, id) ==
    IF \E i \in 1..Len(convs) : convs[i].id = id
    THEN CHOOSE i \in 1..Len(convs) :
            convs[i].id = id /\ \A j \in 1..(i - 1) : convs[j].id # id
    ELSE 0

Filter(convs, id) == SelectSeq(convs, LAMBDA c : c.id # id)

UserCount(msgs) == Cardinality({i \in 1..Len(msgs) : msgs[i].type = "user"})

\* JSON.stringify / JSON.parse of the conversation list: the JSON text is a
\* sequence of tuples <<id, title, messages, createdAt>>, each message a
\* tuple <<content, type>>.
StringifyMessage(m) == <<m.content, m.type>>
\* StringifyConversation that writes the placeholder title
StringifyConversationUntitled(c) ==
    <<c.id, DefaultTitle, [i \in 1..Len(c.messages) |-> StringifyMessage(c.messages[i])], c.createdAt>>

StringifyConversation(c) ==
    <<c.id, c.title, [i \in 1..Len(c.messages) |-> StringifyMessage(c.messages[i])], c.createdAt>>
Stringify(convs) == [i \in 1..Len(convs) |-> StringifyConversation(convs[i])]

ParseMessage(t) == [content |-> t[1], type |-> t[2]]
ParseConversation(t) ==
    [id |-> t[1], title |-> t[2],
     messages |-> [i \in 1..Len(t[3]) |-> ParseMessage(t[3][i])],
     createdAt |-> t[4]]
Parse(doc) == [i \in 1..Len(doc) |-> ParseConversation(doc[i])]

Absent == [kind |-> "absent", doc |-> <<>>]
Unparseable == [kind |-> "unparseable", doc |-> <<>>]
NonList == [kind |-> "nonlist", doc |-> <<>>]

\* saveConversations: localStorage.setItem(key, JSON.stringify(conversations))
saveConversations(convs) == [kind |-> "list", doc |-> Stringify(convs)]

\* loadConversations: getItem, JSON.parse, renderConversationList.  A value
\* that is not JSON makes JSON.parse throw; a JSON value that is not an
\* array makes conversations.map throw in renderConversationList.
loadConversations(stor) ==
    CASE stor.kind = "absent" -> [raised |-> FALSE, conversations |-> <<>>]
      [] stor.kind = "list" -> [raised |-> FALSE, conversations |-> Parse(stor.doc)]
      [] OTHER -> [raised |-> TRUE, conversations |-> <<>>]

\* title with the ellipsis left out
TitleFromNoEllipsis(content) == Substring0(content, TitleLimit)

\* content.substring(0, 30) + (content.length > 30 ? '...' : '')
TitleFrom(content) ==
    Substring0(content, TitleLimit) \o (IF Len(content) > TitleLimit THEN Ellipsis ELSE <<>>)

\* The conversation createNewConversation builds at clock value t.  createdAt
\* holds the instant that the ISO string of new Date() denotes.
NewConversation(t) ==
    [id |-> IdOf(t), title |-> DefaultTitle, messages |-> <<>>, createdAt |-> t]

\* Pushed with messages.unshift in place of messages.push
PushedFront(c, content, type, t) ==
    LET msgs == <<[content |-> content, type |-> type]>> \o c.messages
    IN [c EXCEPT !.messages = msgs,
                 !.title = IF type = "user" /\ UserCount(msgs) = 1
                           THEN TitleFrom(content) ELSE @]

\* Pushed with the message list replaced by the new message
PushedReplacing(c, content, type, t) ==
    LET msgs == <<[content |-> content, type |-> type]>>
    IN [c EXCEPT !.messages = msgs,
                 !.title = IF type = "user" /\ UserCount(Append(c.messages, msgs[1])) = 1
                           THEN TitleFrom(content) ELSE @]

\* Pushed with the title taken from every user message
PushedRetitling(c, content, type, t) ==
    LET msgs == Append(c.messages, [content |-> content, type |-> type])
    IN [c EXCEPT !.messages = msgs,
                 !.title = IF type = "user" THEN TitleFrom(content) ELSE @]

\* The conversation after messages.push and the title update.  A message is
\* its content and type; its timestamp string is written once at line 404
\* and read by no handler, and is not part of the record here.
Pushed(c, content, type, t) ==
    LET msgs == Append(c.messages, [content |-> content, type |-> type])
    IN [c EXCEPT !.messages = msgs,
                 !.title = IF type = "user" /\ UserCount(msgs) = 1
                           THEN TitleFrom(content) ELSE @]

\* saveMessageToConversation that saves before the title update
saveMessageStaleTitle(convs, stor, curId, content, type, t) ==
    LET i == FindIndex(convs, curId)
    IN IF i = 0 THEN [conversations |-> convs, storage |-> stor]
       ELSE [conversations |-> [convs EXCEPT ![i] = Pushed(convs[i], content, type, t)],
             storage |-> saveConversations(
                 [convs EXCEPT ![i] = [Pushed(convs[i], content, type, t)
                                          EXCEPT !.title = convs[i].title]])]

\* saveMessageToConversation that falls back to the front conversation
saveMessageFrontFallback(convs, stor, curId, content, type, t) ==
    LET f == FindIndex(convs, curId)
        i == IF f = 0 /\ convs # <<>> THEN 1 ELSE f
    IN IF i = 0 THEN [conversations |-> convs, storage |-> stor]
       ELSE LET next == [convs EXCEPT ![i] = Pushed(convs[i], content, type, t)]
            IN [conversations |-> next, storage |-> saveConversations(next)]

\* saveMessageToConversation: the list and the persisted record it leaves.
saveMessageToConversation(convs, stor, curId, content, type, t) ==
    LET i == FindIndex(convs, curId)
    IN IF i = 0 THEN [conversations |-> convs, storage |-> stor]
       ELSE LET next == [convs EXCEPT ![i] = Pushed(convs[i], content, type, t)]
            IN [conversations |-> next, storage |-> saveConversations(next)]

\* updateSendButtonState: sendBtn.disabled
SendDisabled(value, processing) == ~(Len(Trim(value)) > 0) \/ processing

\* sendMessage's guard with the processing flag ignored
AcceptsWhileProcessing(message, processing) == message # <<>>

\* sendMessage's guard with the empty-message test ignored
AcceptsEmpty(message, processing) == ~processing

\* sendMessage's guard: !message || this.isProcessing returns
Accepts(message, processing) == ~(message = <<>> \/ processing)

\* -------------------------------------------------------------------- state
VARIABLES
    phase,                  \* "boot" before the constructor runs, "running" after init, "crashed" when init threw
    storage,                \* localStorage['phychat-conversations']
    conversations,          \* this.conversations
    currentConversationId,  \* this.currentConversationId
    isProcessing,           \* this.isProcessing
    chatInput,              \* this.chatInput.value
    sendBtnDisabled,        \* this.sendBtn.disabled
    welcome,                \* a .welcome-screen element is in #chat-messages
    rendered,               \* the message elements of #chat-messages, in order
    typingIndicator,        \* #typing-indicator is in #chat-messages
    pending,                \* getAIResponse calls whose delay timer has not fired
    now                     \* the millisecond clock read by Date.now() and new Date()

vars == <<phase, storage, conversations, currentConversationId, isProcessing,
          chatInput, sendBtnDisabled, welcome, rendered, typingIndicator,
          pending, now>>

\* The page as loaded, before DOMContentLoaded constructs PhyChatApp.  The
\* stored value is whatever is under the key: nothing, or a value this
\* program did not write.
Init ==
    /\ phase = "boot"
    /\ storage \in {Absent, Unparseable, NonList}
    /\ conversations = <<>>
    /\ currentConversationId = Null
    /\ isProcessing = FALSE
    /\ chatInput = <<>>
    /\ sendBtnDisabled \in BOOLEAN
    /\ welcome = FALSE
    /\ rendered = <<>>
    /\ typingIndicator = FALSE
    /\ pending = <<>>
    /\ now = StartClock

\* addMessage that inserts the element before the others
AddedFront(elems, content, type, isError) ==
    <<[content |-> content, type |-> type, isError |-> isError]>> \o elems

\* addMessage(content, type, isError) on the transcript
Added(elems, content, type, isError) ==
    Append(elems, [content |-> content, type |-> type, isError |-> isError])

\* loadConversation that does not clear #chat-messages first
loadConversationNoClear(convs, conversationId) ==
    /\ currentConversationId' = conversationId
    /\ LET i == FindIndex(convs, conversationId)
       IN IF i = 0
          THEN UNCHANGED <<welcome, rendered, typingIndicator>>
          ELSE /\ typingIndicator' = typingIndicator
               /\ welcome' = (Len(convs[i].messages) = 0)
               /\ rendered' = rendered \o
                               [k \in 1..Len(convs[i].messages) |->
                                 [content |-> convs[i].messages[k].content,
                                  type |-> convs[i].messages[k].type,
                                  isError |-> FALSE]]

\* loadConversation(conversationId) over the list convs
loadConversation(convs, conversationId) ==
    /\ currentConversationId' = conversationId
    /\ LET i == FindIndex(convs, conversationId)
       IN IF i = 0
          THEN UNCHANGED <<welcome, rendered, typingIndicator>>
          ELSE /\ typingIndicator' = FALSE
               /\ welcome' = (Len(convs[i].messages) = 0)
               /\ rendered' = [k \in 1..Len(convs[i].messages) |->
                                 [content |-> convs[i].messages[k].content,
                                  type |-> convs[i].messages[k].type,
                                  isError |-> FALSE]]

\* createNewConversation() when this.conversations is convs
createNewConversation(convs) ==
    LET conversation == NewConversation(now)
        next == <<conversation>> \o convs
    IN /\ conversations' = next
       /\ storage' = saveConversations(next)
       /\ loadConversation(next, conversation.id)

\* init() that starts a new conversation whatever was loaded
StartupAlwaysCreates ==
    /\ phase = "boot"
    /\ LET r == loadConversations(storage)
       IN IF r.raised
          THEN /\ phase' = "crashed"
               /\ UNCHANGED <<storage, conversations, currentConversationId,
                              welcome, rendered, typingIndicator>>
          ELSE /\ phase' = "running"
               /\ createNewConversation(r.conversations)
    /\ UNCHANGED <<isProcessing, chatInput, sendBtnDisabled, pending, now>>

\* constructor and init(): loadConversations, then a new conversation when
\* there is none, else the front one is loaded.
Startup ==
    /\ phase = "boot"
    /\ LET r == loadConversations(storage)
       IN IF r.raised
          THEN /\ phase' = "crashed"
               /\ UNCHANGED <<storage, conversations, currentConversationId,
                              welcome, rendered, typingIndicator>>
          ELSE /\ phase' = "running"
               /\ IF Len(r.conversations) = 0
                  THEN createNewConversation(r.conversations)
                  ELSE /\ conversations' = r.conversations
                       /\ loadConversation(r.conversations, r.conversations[1].id)
                       /\ UNCHANGED storage
    /\ UNCHANGED <<isProcessing, chatInput, sendBtnDisabled, pending, now>>

\* The page is loaded again: the object and its timers are gone, the stored
\* record stays.
Reload ==
    /\ phase # "boot"
    /\ phase' = "boot"
    /\ conversations' = <<>>
    /\ currentConversationId' = Null
    /\ isProcessing' = FALSE
    /\ chatInput' = <<>>
    /\ sendBtnDisabled' \in BOOLEAN
    /\ welcome' = FALSE
    /\ rendered' = <<>>
    /\ typingIndicator' = FALSE
    /\ pending' = <<>>
    /\ UNCHANGED <<storage, now>>

\* A millisecond passes.
Tick ==
    /\ now < LastClock
    /\ now' = now + 1
    /\ UNCHANGED <<phase, storage, conversations, currentConversationId,
                   isProcessing, chatInput, sendBtnDisabled, welcome, rendered,
                   typingIndicator, pending>>

\* The 'input' listener of setupAutoResize: the user edits the text.
TypeInput(text) ==
    /\ phase = "running"
    /\ chatInput' = text
    /\ sendBtnDisabled' = SendDisabled(text, isProcessing)
    /\ UNCHANGED <<phase, storage, conversations, currentConversationId,
                   isProcessing, welcome, rendered, typingIndicator, pending, now>>

\* recognition.onresult: the transcript replaces the input's value; no input
\* event is dispatched for a value set by script and updateSendButtonState
\* is not called.
VoiceResult(transcript) ==
    /\ phase = "running"
    /\ chatInput' = transcript
    /\ UNCHANGED <<phase, storage, conversations, currentConversationId,
                   isProcessing, sendBtnDisabled, welcome, rendered,
                   typingIndicator, pending, now>>

Attachments(value) ==
    Cardinality({k \in 1..Len(value) : value[k] = AttachmentToken[2]})

\* processAttachment(file): the token is appended to the input's value, by
\* script again.
ProcessAttachment ==
    /\ phase = "running"
    /\ Attachments(chatInput) < MaxAttachments
    /\ chatInput' = chatInput \o AttachmentToken
    /\ UNCHANGED <<phase, storage, conversations, currentConversationId,
                   isProcessing, sendBtnDisabled, welcome, rendered,
                   typingIndicator, pending, now>>

MessagesOf(convs, id) ==
    IF FindIndex(convs, id) = 0 THEN <<>> ELSE convs[FindIndex(convs, id)].messages

RECURSIVE TotalMessages(_)
TotalMessages(convs) ==
    IF convs = <<>> THEN 0 ELSE Len(Head(convs).messages) + TotalMessages(Tail(convs))

RemoveAt(s, k) == SubSeq(s, 1, k - 1) \o SubSeq(s, k + 1, Len(s))

\* sendMessage() when this.chatInput.value is value.
sendMessage(value) ==
    LET message == Trim(value)
    IN IF ~Accepts(message, isProcessing)
       THEN /\ chatInput' = value
            /\ UNCHANGED <<phase, storage, conversations, currentConversationId,
                           isProcessing, sendBtnDisabled, welcome, rendered,
                           typingIndicator, pending, now>>
       ELSE 
            LET r == saveMessageToConversation(conversations, storage,
                         currentConversationId, message, "user", now)
            IN /\ TotalMessages(conversations) < MaxMsgs
               /\ chatInput' = <<>>
               /\ sendBtnDisabled' = SendDisabled(<<>>, isProcessing)
               /\ welcome' = FALSE
               /\ rendered' = Added(rendered, message, "user", FALSE)
               /\ conversations' = r.conversations
               /\ storage' = r.storage
               /\ typingIndicator' = TRUE
               /\ isProcessing' = TRUE
               /\ pending' = Append(pending, [message |-> message])
               /\ UNCHANGED <<phase, currentConversationId, now>>

\* The send button's click listener and the Enter keydown listener.
SendMessage ==
    /\ phase = "running"
    /\ sendMessage(chatInput)

\* A quick-prompt button of the welcome screen: the prompt is put into the
\* input, then sendMessage().
QuickPrompt(prompt) ==
    /\ phase = "running"
    /\ welcome
    /\ sendMessage(prompt)

\* The try branch without the reset of isProcessing after it
ResponseResolveStuck ==
    /\ phase = "running"
    /\ \E k \in 1..Len(pending), ms \in Delays :
        LET response == getAIResponse(pending[k].message, ms)
            r == saveMessageToConversation(conversations, storage,
                     currentConversationId, response, "assistant", now)
        IN /\ pending' = RemoveAt(pending, k)
           /\ typingIndicator' = FALSE
           /\ welcome' = FALSE
           /\ rendered' = Added(rendered, response, "assistant", FALSE)
           /\ conversations' = r.conversations
           /\ storage' = r.storage
           /\ sendBtnDisabled' = SendDisabled(chatInput, isProcessing)
    /\ UNCHANGED <<phase, currentConversationId, chatInput, now, isProcessing>>

\* The delay timer fires and getAIResponse returns: the try branch of
\* sendMessage after the await.  ms is the delay that was drawn at line 249.
ResponseResolve ==
    /\ phase = "running"
    /\ \E k \in 1..Len(pending), ms \in Delays :
        LET response == getAIResponse(pending[k].message, ms)
            r == saveMessageToConversation(conversations, storage,
                     currentConversationId, response, "assistant", now)
        IN /\ pending' = RemoveAt(pending, k)
           /\ typingIndicator' = FALSE
           /\ welcome' = FALSE
           /\ rendered' = Added(rendered, response, "assistant", FALSE)
           /\ conversations' = r.conversations
           /\ storage' = r.storage
           /\ isProcessing' = FALSE
           /\ sendBtnDisabled' = SendDisabled(chatInput, FALSE)
    /\ UNCHANGED <<phase, currentConversationId, chatInput, now>>

\* The catch branch with the error text saved as an assistant message
ResponseFailSaving ==
    /\ phase = "running"
    /\ \E k \in 1..Len(pending) :
        LET r == saveMessageToConversation(conversations, storage,
                     currentConversationId, ErrorText, "assistant", now)
        IN /\ typingIndicator' = FALSE
           /\ welcome' = FALSE
           /\ rendered' = Added(rendered, ErrorText, "assistant", TRUE)
           /\ conversations' = r.conversations
           /\ storage' = r.storage
           /\ isProcessing' = FALSE
           /\ sendBtnDisabled' = SendDisabled(chatInput, FALSE)
           /\ pending' = RemoveAt(pending, k)
    /\ UNCHANGED <<phase, currentConversationId, chatInput, now>>

\* The awaited response is rejected: the catch branch of sendMessage.
\* localStorage.setItem is taken to succeed, so the rejection comes from the
\* awaited call and nothing of the try branch has run.
ResponseFail ==
    /\ phase = "running"
    /\ \E k \in 1..Len(pending) :
        /\ typingIndicator' = FALSE
        /\ welcome' = FALSE
        /\ rendered' = Added(rendered, ErrorText, "assistant", TRUE)
        /\ isProcessing' = FALSE
        /\ sendBtnDisabled' = SendDisabled(chatInput, FALSE)
        /\ pending' = RemoveAt(pending, k)
    /\ UNCHANGED <<phase, storage, conversations, currentConversationId,
                   chatInput, now>>

\* The new-chat button.
NewChat ==
    /\ phase = "running"
    /\ Len(conversations) < MaxConvs
    /\ createNewConversation(conversations)
    /\ UNCHANGED <<phase, isProcessing, chatInput, sendBtnDisabled, pending, now>>

\* A click on the i-th item of the sidebar.
SwitchConversation(i) ==
    /\ phase = "running"
    /\ i \in 1..Len(conversations)
    /\ loadConversation(conversations, conversations[i].id)
    /\ UNCHANGED <<phase, storage, conversations, isProcessing, chatInput,
                   sendBtnDisabled, pending, now>>

\* deleteConversation(conversationId) from the i-th item's delete button.
DeleteConversation(i) ==
    /\ phase = "running"
    /\ i \in 1..Len(conversations)
    /\ LET conversationId == conversations[i].id
           rest == Filter(conversations, conversationId)
       IN /\ IF currentConversationId = conversationId
             THEN IF Len(rest) > 0
                  THEN /\ conversations' = rest
                       /\ storage' = saveConversations(rest)
                       /\ loadConversation(rest, rest[1].id)
                  ELSE createNewConversation(rest)
             ELSE /\ conversations' = rest
                  /\ storage' = saveConversations(rest)
                  /\ UNCHANGED <<currentConversationId, welcome, rendered,
                                 typingIndicator>>
    /\ UNCHANGED <<phase, isProcessing, chatInput, sendBtnDisabled, pending, now>>

Next ==
    \/ Startup
    \/ Reload
    \/ Tick
    \/ \E text \in TypedTexts : TypeInput(text)
    \/ SendMessage
    \/ \E prompt \in PressedPrompts : QuickPrompt(prompt)
    \/ ResponseResolve
    \/ ResponseFail
    \/ NewChat
    \/ \E i \in 1..MaxConvs : SwitchConversation(i)
    \/ \E i \in 1..MaxConvs : DeleteConversation(i)

Spec == Init /\ [][Next]_vars

\* The delay timer of an outstanding getAIResponse call fires (setTimeout,
\* line 341) and the rest of sendMessage runs, in its try or its catch branch.
Fairness == WF_vars(ResponseFail \/ ResponseResolve)

\* One page load: every handler of the page, without the reload that ends it
\* (a reload discards the controller together with its pending response).
\* The text typed is the one a submission accepts; an empty input stands for
\* the submissions that are rejected for their text.
NextPageLoad ==
    \/ Startup
    \/ Tick
    \/ TypeInput(TextPadded30)
    \/ SendMessage
    \/ \E prompt \in PressedPrompts : QuickPrompt(prompt)
    \/ ResponseResolve
    \/ ResponseFail
    \/ NewChat
    \/ \E i \in 1..MaxConvs : SwitchConversation(i)
    \/ \E i \in 1..MaxConvs : DeleteConversation(i)

FairSpec == Init /\ [][NextPageLoad]_vars /\ Fairness

\* The page with the voice and attachment handlers, which write the input.
NextInput ==
    \/ Next
    \/ \E transcript \in Transcripts : VoiceResult(transcript)
    \/ ProcessAttachment

SpecInput == Init /\ [][NextInput]_vars

\* ------------------------------------------------ the store, called directly
\* saveMessageToConversation is also checked as a function of the list and
\* of this.currentConversationId, over lists the program can hold and ids
\* that are or are not in them.
SampleMessages ==
    {<<>>, <<[content |-> Trim(TextPadded30), type |-> "user"]>>}

SampleConversations ==
    {[id |-> IdOf(t),
      title |-> IF msgs = <<>> THEN DefaultTitle ELSE TitleFrom(msgs[1].content),
      messages |-> msgs,
      createdAt |-> t] : t \in StartClock..LastClock, msgs \in SampleMessages}

NewestFirst(convs) ==
    \A i, j \in 1..Len(convs) : i < j => convs[i].createdAt >= convs[j].createdAt

SampleLists ==
    {l \in UNION {[1..n -> SampleConversations] : n \in 0..MaxConvs} : NewestFirst(l)}

InitStore ==
    /\ phase = "running"
    /\ conversations \in SampleLists
    /\ storage = saveConversations(conversations)
    /\ currentConversationId \in {IdOf(t) : t \in StartClock..(LastClock + 1)} \cup {Null}
    /\ isProcessing = FALSE
    /\ chatInput = <<>>
    /\ sendBtnDisabled = TRUE
    /\ welcome = FALSE
    /\ rendered = <<>>
    /\ typingIndicator = FALSE
    /\ pending = <<>>
    /\ now = LastClock

\* A direct call of saveMessageToConversation(content, type).
AppendCall(content, type) ==
    LET r == saveMessageToConversation(conversations, storage,
                 currentConversationId, content, type, now)
    IN /\ Len(MessagesOf(conversations, currentConversationId)) < MaxMsgs
       /\ conversations' = r.conversations
       /\ storage' = r.storage
       /\ UNCHANGED <<phase, currentConversationId, isProcessing, chatInput,
                      sendBtnDisabled, welcome, rendered, typingIndicator,
                      pending, now>>

NextStore ==
    \E content \in {Trim(TextPadded30), PromptNewton}, type \in {"user", "assistant"} :
        AppendCall(content, type)

SpecStore == InitStore /\ [][NextStore]_vars

\* A page loaded on the record an earlier page load left: one conversation
\* more than the new-chat button is pressed for in Spec.
StoredLists ==
    {l \in [1..(MaxConvs + 1) -> SampleConversations] : NewestFirst(l)}

InitStored ==
    /\ phase = "boot"
    /\ storage \in {saveConversations(l) : l \in StoredLists}
    /\ conversations = <<>>
    /\ currentConversationId = Null
    /\ isProcessing = FALSE
    /\ chatInput = <<>>
    /\ sendBtnDisabled \in BOOLEAN
    /\ welcome = FALSE
    /\ rendered = <<>>
    /\ typingIndicator = FALSE
    /\ pending = <<>>
    /\ now = LastClock

NextStored ==
    \/ Startup
    \/ \E i \in 1..(MaxConvs + 1) : SwitchConversation(i)
    \/ \E i \in 1..(MaxConvs + 1) : DeleteConversation(i)

SpecStored == InitStored /\ [][NextStored]_vars

\* --------------------------------------------- the resolver, over many texts
Fragments ==
    { KwNewton, <<"N","e","w","t","o","n">>, <<"N","E","W","T","O","N">>,
      <<"n","e","w","t">>, <<"o","n">>, <<"i","a","n">>, <<" ">>,
      KwQuantum, <<"Q","u","a","n","t","u","m">>, KwThermodynamics,
      KwElectromagnetism, KwRelativity, KwDefault, <<"x">> }

RECURSIVE Concats(_)
Concats(n) ==
    IF n = 0 THEN {<<>>}
    ELSE {a \o b : a \in Fragments \cup {<<>>}, b \in Concats(n - 1)}

ResolverInputs == Concats(MaxFragments)

\* A started application with one fresh conversation and a text in the input.
InitResolver ==
    /\ phase = "running"
    /\ now = StartClock
    /\ conversations = <<NewConversation(now)>>
    /\ storage = saveConversations(conversations)
    /\ currentConversationId = IdOf(now)
    /\ isProcessing = FALSE
    /\ chatInput \in ResolverInputs
    /\ sendBtnDisabled = SendDisabled(chatInput, FALSE)
    /\ welcome = TRUE
    /\ rendered = <<>>
    /\ typingIndicator = FALSE
    /\ pending = <<>>

NextResolver ==
    \/ SendMessage
    \/ ResponseResolve

SpecResolver == InitResolver /\ [][NextResolver]_vars

\* ------------------------------------------------------------------ claims
Occurrences(convs, id) == {i \in 1..Len(convs) : convs[i].id = id}

PersistedIds == {storage.doc[i][1] : i \in 1..Len(storage.doc)}

\* C1: once startup has completed, the active conversation id is the id of
\* exactly one conversation of the list.
C1_ActiveIsExactlyOne ==
    phase = "running" =>
        Cardinality(Occurrences(conversations, currentConversationId)) = 1

\* C2: the list is ordered most-recent-first and all conversation ids in it
\* are pairwise distinct, whatever the clock values that supplied the ids.
C2_NewestFirstDistinctIds ==
    phase = "running" =>
        /\ \A i, j \in 1..Len(conversations) :
              i < j => conversations[i].createdAt >= conversations[j].createdAt
        /\ \A i, j \in 1..Len(conversations) :
              i # j => conversations[i].id # conversations[j].id

\* C3: loadConversations never raises: with an absent or malformed stored
\* value startup goes on from an empty list, i.e. it completes with exactly
\* the one conversation that init creates for an empty list.
C3_LoadFailsSoft ==
    [][(phase = "boot" /\ phase' # "boot" /\ storage.kind # "list")
          => (phase' = "running" /\ conversations' = <<NewConversation(now)>>)]_vars

\* C4: at most one getAIResponse call is outstanding at any time, and a
\* submission made while one is outstanding starts no further one.
C4_AtMostOneOutstanding ==
    /\ Len(pending) <= 1
    /\ isProcessing <=> (Len(pending) = 1)

C4_Witness ==
    /\ Len(pending) = 1
    /\ welcome
    /\ chatInput = PromptNewton

\* C5: between handlers the stored record is the serialization of the
\* in-memory conversation list.
C5_PersistedEqualsMemory ==
    phase = "running" =>
        /\ storage.kind = "list"
        /\ storage.doc = Stringify(conversations)
        /\ Parse(storage.doc) = conversations

C5_Witness ==
    /\ phase = "running"
    /\ Len(conversations) = 1
    /\ conversations[1].title # DefaultTitle
    /\ \E k \in 1..Len(conversations[1].messages) :
          conversations[1].messages[k].type = "assistant"
    /\ conversations[1].id # IdOf(StartClock)

\* C6: sendMessage called while the trimmed input is empty or isProcessing
\* is true changes nothing: list, active id, transcript, input, flag, stored
\* record and outstanding responses stay as they are (a quick-prompt button
\* first puts its prompt into the input, and nothing else changes).
C6_RejectedSendIsNoOp ==
    [][/\ (SendMessage /\ (Trim(chatInput) = <<>> \/ isProcessing))
            => UNCHANGED vars
       /\ \A prompt \in QuickPrompts :
            (QuickPrompt(prompt) /\ isProcessing)
                => /\ chatInput' = prompt
                   /\ UNCHANGED <<phase, storage, conversations,
                                  currentConversationId, isProcessing,
                                  sendBtnDisabled, welcome, rendered,
                                  typingIndicator, pending, now>>]_vars

C6_Witness ==
    /\ isProcessing
    /\ chatInput = PromptNewton
    /\ Len(pending) = 1
    /\ pending[1].message # PromptNewton
    /\ rendered = <<>>

FirstUserContent(msgs) ==
    msgs[CHOOSE k \in 1..Len(msgs) :
            msgs[k].type = "user" /\ \A j \in 1..(k - 1) : msgs[j].type # "user"].content

\* C7: a conversation that has a user message is titled with the first 30
\* characters of its first user message, followed by '...' exactly when that
\* text is longer than 30 characters.
C7_TitleFromFirstUserMessage ==
    \A i \in 1..Len(conversations) :
        UserCount(conversations[i].messages) >= 1 =>
            LET text == FirstUserContent(conversations[i].messages)
            IN conversations[i].title =
                 IF Len(text) > 30
                 THEN SubSeq(text, 1, 30) \o <<".", ".", ".">>
                 ELSE text

C7_Witness ==
    /\ Len(conversations) = 2
    /\ \E i \in 1..2 :
          /\ conversations[i].title = SubSeq(PromptNewton, 1, 30) \o <<".", ".", ".">>
          /\ conversations[3 - i].title = SubSeq(TextPadded30, 2, 31)
          /\ Len(conversations[3 - i].title) = 30

\* C8: saveMessageToConversation called while currentConversationId is the
\* id of no conversation leaves the list and the stored record unchanged.
C8_AppendMissingIsNoOp ==
    [][(/\ Occurrences(conversations, currentConversationId) = {}
        /\ \E content \in {Trim(TextPadded30), PromptNewton}, type \in {"user", "assistant"} :
              AppendCall(content, type))
          => UNCHANGED <<conversations, storage>>]_vars

C8_Witness ==
    /\ Occurrences(conversations, currentConversationId) = {}
    /\ currentConversationId # Null
    /\ Len(conversations) = MaxConvs
    /\ \E i \in 1..Len(conversations) : conversations[i].messages # <<>>
    /\ storage = saveConversations(conversations)

\* C9: after deleteConversation(id) no conversation with that id is left in
\* the list or in the stored record; when the deleted one was active, the
\* front remaining conversation is active, or a fresh empty one when none
\* remains, and exactly one conversation is active.
C9_DeleteLeavesOneActive ==
    [][\A i \in 1..MaxConvs :
         (DeleteConversation(i) /\ i <= Len(conversations)) =>
            LET id == conversations[i].id
                rest == SelectSeq(conversations, LAMBDA c : c.id # id)
            IN /\ Occurrences(conversations', id) = {}
               /\ id \notin PersistedIds'
               /\ currentConversationId = id =>
                    /\ IF rest # <<>>
                       THEN currentConversationId' = rest[1].id
                       ELSE /\ Len(conversations') = 1
                            /\ conversations'[1].messages = <<>>
                            /\ currentConversationId' = conversations'[1].id
                    /\ Cardinality(Occurrences(conversations', currentConversationId')) = 1]_vars

ClaimKeywords == <<KwNewton, KwQuantum, KwThermodynamics, KwElectromagnetism, KwRelativity>>
ClaimResponses == <<RespNewton, RespQuantum, RespThermodynamics, RespElectromagnetism, RespRelativity>>

ExpectedResponse(text) ==
    LET lowered == ToLowerCase(text)
        hits == {k \in 1..5 : Includes(lowered, ClaimKeywords[k])}
    IN IF hits = {} THEN RespDefault
       ELSE ClaimResponses[CHOOSE k \in hits : \A h \in hits : k <= h]

\* C10: whatever the delay, the response to a text is that of the first of
\* newton, quantum, thermodynamics, electromagnetism, relativity (in this
\* order) occurring in the lowercased text, and the default response when
\* none occurs; any-case 'Newton' and 'newtonian' give the Newton response.
C10_ResolverByTableOrder ==
    \A k \in 2..Len(rendered) :
        rendered[k].type = "assistant" =>
            LET text == rendered[k - 1].content
            IN /\ rendered[k].content = ExpectedResponse(text)
               /\ text \in {<<"N","E","W","T","O","N">>, <<"N","e","w","t","o","n">>,
                            <<"n","e","w","t","o","n","i","a","n">>}
                     => rendered[k].content = RespNewton
               /\ text \in {<<"x">>, <<"n","e","w","t">>, KwDefault}
                     => rendered[k].content = RespDefault

C10_Witness ==
    /\ Len(rendered) = 2
    /\ rendered[1].content = KwQuantum \o <<"N","e","w","t","o","n">>
    /\ rendered[2].content = RespNewton
    /\ pending = <<>>

CurrentIndex == FindIndex(conversations, currentConversationId)

MessagesAt(convs, i) == IF i \in 1..Len(convs) THEN convs[i].messages ELSE <<>>

OthersKeepMessages(i) ==
    /\ Len(conversations') = Len(conversations)
    /\ \A j \in 1..Len(conversations) :
          j # i => conversations'[j] = conversations[j]

\* C11: an accepted submission of t appends the user message t to the active
\* conversation, and when the response then arrives with the conversation
\* still loaded as it was at the submission (no switch, new chat or delete
\* of it since: the typing indicator is still shown), the assistant message
\* resolver(t) is appended right after it and the controller is Idle; the
\* other conversations are untouched.
C11_SubmitThenResponse ==
    [][/\ (Len(pending') = Len(pending) + 1) =>
            LET t == pending'[Len(pending')].message
            IN /\ CurrentIndex > 0
               /\ currentConversationId' = currentConversationId
               /\ conversations'[CurrentIndex].messages =
                     Append(conversations[CurrentIndex].messages,
                            [content |-> t, type |-> "user"])
               /\ OthersKeepMessages(CurrentIndex)
               /\ typingIndicator'
       /\ (/\ typingIndicator
           /\ Len(pending') < Len(pending)
           /\ phase' = "running"
           /\ rendered' # <<>>
           /\ ~rendered'[Len(rendered')].isError) =>
            LET t == pending[1].message
                msgs == MessagesAt(conversations, CurrentIndex)
            IN /\ msgs # <<>>
               /\ msgs[Len(msgs)] = [content |-> t, type |-> "user"]
               /\ conversations'[CurrentIndex].messages =
                     Append(msgs, [content |-> ExpectedResponse(t), type |-> "assistant"])
               /\ OthersKeepMessages(CurrentIndex)
               /\ ~isProcessing']_vars

C11_Witness ==
    /\ ~isProcessing
    /\ CurrentIndex > 0
    /\ conversations[CurrentIndex].messages =
          <<[content |-> PromptNewton, type |-> "user"],
            [content |-> RespNewton, type |-> "assistant"]>>
    /\ Len(rendered) = 2
    /\ rendered[2].content = RespNewton

ErrorElement == [content |-> ErrorText, type |-> "assistant", isError |-> TRUE]

\* C12: when the awaited response fails, exactly one error message is added
\* to the transcript, no conversation and no stored record changes (the user
\* message appended at the submission stays), no response computation is
\* left or started, and the controller is Idle.
C12_FailureRendersOneError ==
    [][(\/ ResponseFail
        \/ (Len(rendered') > Len(rendered) /\ rendered'[Len(rendered')].isError))
          => /\ isProcessing
             /\ rendered' = Append(rendered, ErrorElement)
             /\ conversations' = conversations
             /\ storage' = storage
             /\ pending' = <<>>
             /\ ~isProcessing']_vars

C12_Witness ==
    /\ ~isProcessing
    /\ pending = <<>>
    /\ rendered # <<>>
    /\ rendered[Len(rendered)] = ErrorElement
    /\ Cardinality({k \in 1..Len(rendered) : rendered[k].isError}) = 1
    /\ CurrentIndex > 0
    /\ conversations[CurrentIndex].messages =
          <<[content |-> Trim(TextPadded30), type |-> "user"]>>
    /\ storage = saveConversations(conversations)

IsPrefix(a, b) == Len(a) <= Len(b) /\ SubSeq(b, 1, Len(a)) = a

\* A step of the running page relates every conversation that is in the list
\* before and after it by Kept.  The handlers change the list in four ways:
\* in place, by unshift of a new conversation (line 366), by filter on an id
\* (line 452), and by filter that empties the list followed by unshift of a
\* new one (lines 452-457), where no conversation is in both lists.
StepKeeps(Kept(_, _)) ==
    \/ /\ Len(conversations') = Len(conversations)
       /\ \A j \in 1..Len(conversations) : Kept(conversations[j], conversations'[j])
    \/ /\ Len(conversations') = Len(conversations) + 1
       /\ \A j \in 1..Len(conversations) : Kept(conversations[j], conversations'[j + 1])
    \/ \E i \in 1..Len(conversations) :
          LET rest == Filter(conversations, conversations[i].id)
          IN /\ rest # <<>>
             /\ Len(conversations') = Len(rest)
             /\ \A j \in 1..Len(rest) : Kept(rest[j], conversations'[j])
    \/ \E i \in 1..Len(conversations) :
          /\ DeleteConversation(i)
          /\ Filter(conversations, conversations[i].id) = <<>>

RunningStep == phase = "running" /\ phase' = "running"

SameConversation(c, d) == c.id = d.id /\ c.createdAt = d.createdAt

MessagesExtended(c, d) == SameConversation(c, d) /\ IsPrefix(c.messages, d.messages)

\* C14: over every step of the running page, the messages of every
\* conversation that is in the list before and after the step are, before
\* the step, a prefix of what they are after it: no handler removes, reorders
\* or rewrites a message already appended.
C14_MessagesAppendOnly ==
    [][RunningStep => StepKeeps(MessagesExtended)]_vars

\* A conversation whose two messages were appended before a new chat was
\* opened in front of it.
C14_Witness ==
    /\ Len(conversations) = 2
    /\ currentConversationId = conversations[1].id
    /\ conversations[1].id # conversations[2].id
    /\ conversations[1].messages = <<>>
    /\ Len(conversations[2].messages) = 2
    /\ conversations[2].messages[1].type = "user"
    /\ conversations[2].messages[2].type = "assistant"
    /\ pending = <<>>

\* C15: under fairness of the delay timer, a controller that is Responding
\* (isProcessing true) is eventually Idle again, whichever of the try and
\* catch branches runs and whatever handlers run while the response is
\* pending.
C15_EventuallyIdle == isProcessing ~> ~isProcessing

\* Idle again after a response that was pending while a new chat was opened.
C15_Witness ==
    /\ ~isProcessing
    /\ pending = <<>>
    /\ Len(conversations) = 2
    /\ conversations[1].id # conversations[2].id
    /\ conversations[1].messages # <<>>
    /\ conversations[1].messages[1].type = "assistant"
    /\ conversations[2].messages # <<>>

TitleKept(c, d) ==
    /\ SameConversation(c, d)
    /\ IF UserCount(c.messages) = 0 /\ UserCount(d.messages) > 0
       THEN c.title = DefaultTitle /\ d.title = TitleFrom(FirstUserContent(d.messages))
       ELSE d.title = c.title

\* C16: over every step of the running page, the title of a conversation
\* changes only on the step that appends its first user message, from the
\* placeholder to the title made from that message; a conversation that has
\* no user message is titled with the placeholder.
C16_TitleSetOnce ==
    [][RunningStep =>
          /\ StepKeeps(TitleKept)
          /\ \A j \in 1..Len(conversations') :
                UserCount(conversations'[j].messages) = 0 =>
                    conversations'[j].title = DefaultTitle]_vars

\* A second user message, from which a different title would be made, was
\* appended to a conversation that keeps the title of its first.
C16_Witness ==
    /\ CurrentIndex > 0
    /\ LET c == conversations[CurrentIndex]
       IN /\ Len(c.messages) = 2
          /\ c.messages[1] = [content |-> PromptNewton, type |-> "user"]
          /\ c.messages[2] = [content |-> Trim(TextPadded30), type |-> "user"]
          /\ c.title = TitleFrom(PromptNewton)
          /\ c.title # TitleFrom(Trim(TextPadded30))

RenderedFrom(msgs) ==
    [k \in 1..Len(msgs) |->
        [content |-> msgs[k].content, type |-> msgs[k].type, isError |-> FALSE]]

C18_CreatedAndRemovedExplicitly ==
    [][/\ (Startup /\ ~loadConversations(storage).raised) =>
            LET loaded == loadConversations(storage).conversations
            IN IF loaded = <<>>
               THEN /\ conversations' = <<NewConversation(now)>>
                    /\ currentConversationId' = IdOf(now)
               ELSE /\ conversations' = loaded
                    /\ storage' = storage
                    /\ currentConversationId' = loaded[1].id
       /\ RunningStep =>
            \/ /\ Len(conversations') = Len(conversations)
               /\ \A j \in 1..Len(conversations) :
                     SameConversation(conversations[j], conversations'[j])
            \/ /\ NewChat
               /\ conversations' = <<NewConversation(now)>> \o conversations
            \/ \E i \in 1..Len(conversations) :
                  /\ DeleteConversation(i)
                  /\ IF Len(conversations) = 1
                     THEN conversations' = <<NewConversation(now)>>
                     ELSE conversations' = RemoveAt(conversations, i)]_vars

\* C19: in every conversation each assistant message comes right after a
\* user message and is the response to it.
C19_AssistantFollowsItsUserMessage ==
    phase = "running" =>
        \A i \in 1..Len(conversations) :
            \A k \in 1..Len(conversations[i].messages) :
                LET msgs == conversations[i].messages
                IN msgs[k].type = "assistant" =>
                      /\ k > 1
                      /\ msgs[k - 1].type = "user"
                      /\ msgs[k].content = ExpectedResponse(msgs[k - 1].content)

NoErrorRendered == \A k \in 1..Len(rendered) : ~rendered[k].isError

\* C20: when the controller is Idle and the transcript holds no error
\* message (none was rendered since the transcript was last loaded), the
\* (content, role) pairs of the transcript are, in order, the stored messages
\* of the active conversation.
C20_TranscriptShowsActive ==
    (phase = "running" /\ ~isProcessing /\ NoErrorRendered) =>
        rendered = RenderedFrom(MessagesOf(conversations, currentConversationId))

\* A response that arrived after a new chat was opened: it is stored in and
\* shown for the new conversation.
C20_Witness ==
    /\ phase = "running"
    /\ ~isProcessing
    /\ pending = <<>>
    /\ Len(conversations) = 2
    /\ currentConversationId = conversations[1].id
    /\ rendered = <<[content |-> RespNewton, type |-> "assistant", isError |-> FALSE]>>
    /\ conversations[1].messages = <<[content |-> RespNewton, type |-> "assistant"]>>
    /\ conversations[2].messages = <<[content |-> PromptNewton, type |-> "user"]>>

\* C21: a delete of a conversation that is not the active one leaves the
\* active id, the transcript and the processing flag as they are, and the
\* list and the stored record are the old list without that one
\* conversation, the others in their order with their titles and messages.
C21_DeleteOtherIsFrame ==
    [][\A i \in 1..Len(conversations) :
          (conversations[i].id # currentConversationId /\ DeleteConversation(i)) =>
              /\ currentConversationId' = currentConversationId
              /\ rendered' = rendered
              /\ isProcessing' = isProcessing
              /\ conversations' = RemoveAt(conversations, i)
              /\ storage' = saveConversations(RemoveAt(conversations, i))]_vars

\* C22: every step of the running page that writes the input or the
\* processing flag leaves the send button enabled exactly when the trimmed
\* input is not empty and isProcessing is false.
C22_SendButtonFollowsInput ==
    [][(RunningStep /\ (chatInput' # chatInput \/ isProcessing' # isProcessing)) =>
          (sendBtnDisabled' <=> SendDisabled(chatInput', isProcessing'))]_vars

====
